---- MODULE Spec2Model ----
(***************************************************************************)
(* A model of the SQL query-rewriting hook of auto_field_trait:            *)
(*   - DefaultQueryHook (src/src/extract_hook.rs): skip-list, before_query *)
(*     and the predicate injection into the parsed statement;              *)
(*   - HookedConnection and the global hook registry;                      *)
(*   - the global context getter (src/src/auto_field_trait.rs).            *)
(* SQL text is a sequence of one-character strings.  The external parser   *)
(* (sqlparser, GenericDialect) is modelled by what it does on the SQL      *)
(* subset used here: tokenizer, precedence parser and Display rendering.   *)
(***************************************************************************)
EXTENDS Integers, Sequences, FiniteSets, TLC

VARIABLES
    hooks,                \* the QueryHook objects: hook id -> its fields
    CONTEXT_GETTER,       \* auto_field_trait::CONTEXT_GETTER
    call,                 \* the caller's last before_query call and its result
    registry,             \* EXTRACT_HOOK_REGISTRY
    conn,                 \* the HookedConnection: its captured hook
    op,                   \* the execution call in flight on the connection
    inner_log,            \* statements received by the inner connection
    after_log,            \* after_query notifications received by the hook
    reqs,                 \* concurrent requests: request -> its progress
    reg,                  \* EXTRACT_HOOK_REGISTRY under its RwLock, and its threads
    skp                   \* skip_tables under its RwLock, and its threads

vars == <<hooks, CONTEXT_GETTER, call, registry, conn, op, inner_log, after_log,
          reqs, reg, skp>>

(***************************************************************************)
(* Characters and strings                                                  *)
(***************************************************************************)
LowerLetters == <<"a","b","c","d","e","f","g","h","i","j","k","l","m",
                  "n","o","p","q","r","s","t","u","v","w","x","y","z">>
UpperLetters == <<"A","B","C","D","E","F","G","H","I","J","K","L","M",
                  "N","O","P","Q","R","S","T","U","V","W","X","Y","Z">>
Digits == {"0","1","2","3","4","5","6","7","8","9"}

Range(s) == {s[i] : i \in DOMAIN s}

IsLetter(c) == c \in Range(LowerLetters) \cup Range(UpperLetters) \cup {"_"}
IsDigit(c) == c \in Digits
IsSpace(c) == c \in {" ", "\n", "\t"}

\* char::to_uppercase / char::to_lowercase on the ASCII range
UpperChar(c) ==
    IF \E i \in DOMAIN LowerLetters : LowerLetters[i] = c
    THEN UpperLetters[CHOOSE i \in DOMAIN LowerLetters : LowerLetters[i] = c]
    ELSE c
LowerChar(c) ==
    IF \E i \in DOMAIN UpperLetters : UpperLetters[i] = c
    THEN LowerLetters[CHOOSE i \in DOMAIN UpperLetters : UpperLetters[i] = c]
    ELSE c

to_uppercase(s) == [i \in DOMAIN s |-> UpperChar(s[i])]
to_lowercase(s) == [i \in DOMAIN s |-> LowerChar(s[i])]
eq_ignore_ascii_case(s, t) == to_lowercase(s) = to_lowercase(t)

starts_with(s, p) == Len(s) >= Len(p) /\ SubSeq(s, 1, Len(p)) = p

\* str::trim: drop leading and trailing whitespace
RECURSIVE TrimStart(_)
TrimStart(s) == IF s # <<>> /\ IsSpace(Head(s)) THEN TrimStart(Tail(s)) ELSE s
RECURSIVE TrimEnd(_)
TrimEnd(s) ==
    IF s # <<>> /\ IsSpace(s[Len(s)]) THEN TrimEnd(SubSeq(s, 1, Len(s) - 1)) ELSE s
trim(s) == TrimEnd(TrimStart(s))

RECURSIVE Concat(_)
Concat(ss) == IF ss = <<>> THEN <<>> ELSE Head(ss) \o Concat(Tail(ss))

\* items joined by a separator (display_separated / display_comma_separated)
RECURSIVE Join(_, _)
Join(ss, sep) ==
    IF ss = <<>> THEN <<>>
    ELSE IF Len(ss) = 1 THEN ss[1]
    ELSE ss[1] \o sep \o Join(Tail(ss), sep)

(***************************************************************************)
(* Lexemes of the SQL subset                                               *)
(***************************************************************************)
SP == <<" ">>
DQ == "\""
\* the grave accent (U+0060), which a TLA+ string cannot hold, is written by name
BQ == "GRAVE"
kwSELECT == <<"S","E","L","E","C","T">>
kwFROM == <<"F","R","O","M">>
kwWHERE == <<"W","H","E","R","E">>
kwAND == <<"A","N","D">>
kwOR == <<"O","R">>
kwAS == <<"A","S">>
kwIS == <<"I","S">>
kwNULL == <<"N","U","L","L">>
kwUNION == <<"U","N","I","O","N">>
kwORDER == <<"O","R","D","E","R">>
kwBY == <<"B","Y">>
kwCOUNT == <<"C","O","U","N","T">>
kwDELETE == <<"D","E","L","E","T","E">>
kwUPDATE == <<"U","P","D","A","T","E">>
kwINSERT == <<"I","N","S","E","R","T">>
kwWITH == <<"W","I","T","H">>
delete_flag == <<"d","e","l","e","t","e","_","f","l","a","g">>
tenant_id == <<"t","e","n","a","n","t","_","i","d">>

\* words that end an unquoted alias or expression (keywords::RESERVED_FOR_*)
ReservedWords == {kwSELECT, kwFROM, kwWHERE, kwAND, kwOR, kwAS, kwIS, kwNULL,
                  kwUNION, kwORDER, kwBY}

(***************************************************************************)
(* Tokenizer (sqlparser::tokenizer::Tokenizer, GenericDialect, called by   *)
(* Parser::parse_sql).  A token is [t, v, q]: t its type, v its            *)
(* characters, q the quote character of a delimited identifier.            *)
(***************************************************************************)
Tok(t, v, q) == [t |-> t, v |-> v, q |-> q]
EOFTok == Tok("eof", <<>>, "")

\* first index >= i whose character is not an identifier part
RECURSIVE WordEnd(_, _)
WordEnd(s, i) ==
    IF i <= Len(s) /\ (IsLetter(s[i]) \/ IsDigit(s[i])) THEN WordEnd(s, i + 1) ELSE i

RECURSIVE NumberEnd(_, _)
NumberEnd(s, i) == IF i <= Len(s) /\ IsDigit(s[i]) THEN NumberEnd(s, i + 1) ELSE i

\* index of the closing quote of a delimited identifier opened before i, or 0
RECURSIVE QuoteEnd(_, _, _)
QuoteEnd(s, i, qc) ==
    IF i > Len(s) THEN 0 ELSE IF s[i] = qc THEN i ELSE QuoteEnd(s, i + 1, qc)

\* a single-quoted string opened before i: [ok, v, next]; '' unescapes to '
RECURSIVE StringBody(_, _, _)
StringBody(s, i, acc) ==
    IF i > Len(s) THEN [ok |-> FALSE, v |-> acc, next |-> i]
    ELSE IF s[i] = "'"
         THEN IF i + 1 <= Len(s) /\ s[i + 1] = "'"
              THEN StringBody(s, i + 2, Append(acc, "'"))
              ELSE [ok |-> TRUE, v |-> acc, next |-> i + 1]
         ELSE StringBody(s, i + 1, Append(acc, s[i]))

\* first index >= i whose character is not whitespace
RECURSIVE SkipSpace(_, _)
SkipSpace(s, i) == IF i <= Len(s) /\ IsSpace(s[i]) THEN SkipSpace(s, i + 1) ELSE i

\* the token that starts at the non-blank character s[i]: [ok, tok, next]
NextToken(s, i) ==
    LET c == s[i]
        Read(t, from, to, q, next) ==
            [ok |-> TRUE, tok |-> Tok(t, SubSeq(s, from, to), q), next |-> next]
        Unterminated == [ok |-> FALSE, tok |-> EOFTok, next |-> i]
        Word(j) == Read("word", i, j - 1, "", j)
        Num(j) == Read("num", i, j - 1, "", j)
        Str(r) == IF r.ok THEN [ok |-> TRUE, tok |-> Tok("str", r.v, ""), next |-> r.next]
                  ELSE Unterminated
        Quoted(j) == IF j = 0 THEN Unterminated ELSE Read("word", i + 1, j - 1, c, j + 1)
    IN CASE IsLetter(c) -> Word(WordEnd(s, i))
         [] IsDigit(c) -> Num(NumberEnd(s, i))
         [] c = "'" -> Str(StringBody(s, i + 1, <<>>))
         [] c \in {DQ, BQ} -> Quoted(QuoteEnd(s, i + 1, c))
         [] OTHER -> Read("sym", i, i, "", i + 1)

\* the number of halvings that bring n down to 1
RECURSIVE Doublings(_)
Doublings(n) == IF n <= 1 THEN 0 ELSE 1 + Doublings((n + 1) \div 2)

\* the tokens read from position i on, 2^k of them at most, in the order
\* the tokenizer's loop reads them: [ok, toks, next].  The loop is unrolled
\* by halves, the second half starting where the first one stopped.
RECURSIVE TokenRun(_, _, _)
TokenRun(s, i, k) ==
    IF k = 0
    THEN LET One(r) == IF r.ok THEN [ok |-> TRUE, toks |-> <<r.tok>>, next |-> r.next]
                       ELSE [ok |-> FALSE, toks |-> <<>>, next |-> r.next]
             At1(p) == IF p > Len(s) THEN [ok |-> TRUE, toks |-> <<>>, next |-> p]
                       ELSE One(NextToken(s, p))
         IN At1(SkipSpace(s, i))
    ELSE LET Second(a) ==
                 IF ~a.ok \/ a.next > Len(s) THEN a
                 ELSE LET Both(b) == [ok |-> b.ok, toks |-> a.toks \o b.toks, next |-> b.next]
                      IN Both(TokenRun(s, a.next, k - 1))
         IN Second(TokenRun(s, i, k - 1))

\* Tokenizer::tokenize: the tokens of s from position i on, after acc
Tokenize(s, i, acc) ==
    LET Out(r) == [ok |-> r.ok, toks |-> acc \o r.toks]
    IN Out(TokenRun(s, i, Doublings(Len(s) + 1)))

\* Token at position p of ts (EOF past the end)
At(ts, p) == IF p <= Len(ts) THEN ts[p] ELSE EOFTok
IsSym(tk, c) == tk.t = "sym" /\ tk.v = <<c>>
\* an unquoted word that is the keyword kw, in any letter case
IsKw(tk, kw) == tk.t = "word" /\ tk.q = "" /\ to_uppercase(tk.v) = kw
IsReserved(tk) == tk.t = "word" /\ tk.q = "" /\ to_uppercase(tk.v) \in ReservedWords
\* a word usable as an identifier
IsIdentTok(tk) == tk.t = "word" /\ ~IsReserved(tk)

(***************************************************************************)
(* Syntax tree (sqlparser::ast).  An Option<T> is a sequence of length 0   *)
(* or 1.  Ident is [v, q]: the value and the quote style ("" when bare).   *)
(***************************************************************************)
Ident(v, q) == [v |-> v, q |-> q]
\* Ident::new: an unquoted identifier holding the string as it is
IdentNew(v) == Ident(v, "")

NoNode == [kind |-> "None"]
Identifier(id) == [kind |-> "Identifier", id |-> id]
CompoundIdentifier(ids) == [kind |-> "CompoundIdentifier", ids |-> ids]
Number(chars) == [kind |-> "Number", s |-> chars]
SingleQuotedString(chars) == [kind |-> "SingleQuotedString", s |-> chars]
BinaryOp(l, o, r) == [kind |-> "BinaryOp", left |-> l, op |-> o, right |-> r]
Nested(e) == [kind |-> "Nested", e |-> e]
IsNull(e) == [kind |-> "IsNull", e |-> e]
Function(name, star, args) ==
    [kind |-> "Function", name |-> name, star |-> star, args |-> args]
Subquery(q) == [kind |-> "Subquery", query |-> q]

Wildcard == [kind |-> "Wildcard"]
QualifiedWildcard(name) == [kind |-> "QualifiedWildcard", name |-> name]
UnnamedExpr(e) == [kind |-> "UnnamedExpr", expr |-> e]
ExprWithAlias(e, a) == [kind |-> "ExprWithAlias", expr |-> e, ialias |-> a]

Table(name, alias) == [kind |-> "Table", name |-> name, alias |-> alias]
Derived(q, alias) == [kind |-> "Derived", subquery |-> q, alias |-> alias]
TableWithJoins(rel) == [relation |-> rel]

Select(projection, from, selection) ==
    [kind |-> "Select", projection |-> projection, from |-> from,
     selection |-> selection]
SetQuery(q) == [kind |-> "Query", query |-> q]
SetOperation(l, r) == [kind |-> "SetOperation", left |-> l, right |-> r]
Query(body, order_by) == [body |-> body, order_by |-> order_by]
StatementQuery(q) == [kind |-> "Query", query |-> q]

(***************************************************************************)
(* Parser (sqlparser::parser::Parser): recursive descent over the tokens   *)
(* ts from position p.  A result is [ok, n, p]: success, the node (or the  *)
(* list of nodes, in ns), and the position after it.                       *)
(***************************************************************************)
Fail(p) == [ok |-> FALSE, n |-> NoNode, ns |-> <<>>, p |-> p]
Done(n, p) == [ok |-> TRUE, n |-> n, ns |-> <<>>, p |-> p]
DoneList(ns, p) == [ok |-> TRUE, n |-> NoNode, ns |-> ns, p |-> p]

\* Parser::get_next_precedence: OR 5, AND 10, IS 17, = 20
NextPrec(tk) ==
    IF IsKw(tk, kwOR) THEN 5
    ELSE IF IsKw(tk, kwAND) THEN 10
    ELSE IF IsKw(tk, kwIS) THEN 17
    ELSE IF IsSym(tk, "=") THEN 20
    ELSE 0

RECURSIVE parse_query(_, _), parse_query_body(_, _), parse_set_primary(_, _),
          parse_set_tail(_, _, _), parse_select(_, _), parse_projection(_, _, _),
          parse_select_item(_, _), parse_from(_, _, _), parse_table_factor(_, _),
          parse_subexpr(_, _, _), parse_infix_loop(_, _, _, _), parse_prefix(_, _),
          parse_object_name(_, _, _), parse_order_list(_, _, _)

parse_expr(ts, p) == parse_subexpr(ts, p, 0)

\* ident ('.' ident)*, the idents collected after acc
parse_object_name(ts, p, acc) ==
    IF ~IsIdentTok(At(ts, p)) THEN Fail(p)
    ELSE LET ids == Append(acc, Ident(At(ts, p).v, At(ts, p).q))
         IN IF IsSym(At(ts, p + 1), ".") /\ IsIdentTok(At(ts, p + 2))
            THEN parse_object_name(ts, p + 2, ids)
            ELSE DoneList(ids, p + 1)

\* Parser::parse_prefix
parse_prefix(ts, p) ==
    LET tk == At(ts, p) IN
    IF IsIdentTok(tk)
    THEN IF IsSym(At(ts, p + 1), "(")
         THEN \* a function call: f(*), f(), f(expr)
              LET name == <<Ident(tk.v, tk.q)>> IN
              IF IsSym(At(ts, p + 2), "*") /\ IsSym(At(ts, p + 3), ")")
              THEN Done(Function(name, TRUE, <<>>), p + 4)
              ELSE IF IsSym(At(ts, p + 2), ")")
              THEN Done(Function(name, FALSE, <<>>), p + 3)
              ELSE LET Arg(a) == IF a.ok /\ IsSym(At(ts, a.p), ")")
                                 THEN Done(Function(name, FALSE, <<a.n>>), a.p + 1)
                                 ELSE Fail(p)
                   IN Arg(parse_expr(ts, p + 2))
         ELSE IF IsSym(At(ts, p + 1), ".") /\ IsIdentTok(At(ts, p + 2))
         THEN LET Name(r) == Done(CompoundIdentifier(r.ns), r.p)
              IN Name(parse_object_name(ts, p, <<>>))
         ELSE Done(Identifier(Ident(tk.v, tk.q)), p + 1)
    ELSE IF tk.t = "num" THEN Done(Number(tk.v), p + 1)
    ELSE IF tk.t = "str" THEN Done(SingleQuotedString(tk.v), p + 1)
    ELSE IF IsSym(tk, "(")
    THEN IF IsKw(At(ts, p + 1), kwSELECT)
         THEN LET Sub(q) == IF q.ok /\ IsSym(At(ts, q.p), ")")
                            THEN Done(Subquery(q.n), q.p + 1) ELSE Fail(p)
              IN Sub(parse_query(ts, p + 1))
         ELSE LET Inner(e) == IF e.ok /\ IsSym(At(ts, e.p), ")")
                              THEN Done(Nested(e.n), e.p + 1) ELSE Fail(p)
              IN Inner(parse_expr(ts, p + 1))
    ELSE Fail(p)

\* the loop of Parser::parse_subexpr with Parser::parse_infix
parse_infix_loop(ts, left, p, prec) ==
    LET tk == At(ts, p)
        np == NextPrec(tk)
    IN IF prec >= np THEN Done(left, p)
       ELSE IF IsKw(tk, kwIS)
       THEN IF IsKw(At(ts, p + 1), kwNULL)
            THEN parse_infix_loop(ts, IsNull(left), p + 2, prec)
            ELSE Fail(p)
       ELSE LET o == IF IsKw(tk, kwOR) THEN "OR"
                     ELSE IF IsKw(tk, kwAND) THEN "AND" ELSE "="
                Right(r) == IF r.ok
                            THEN parse_infix_loop(ts, BinaryOp(left, o, r.n), r.p, prec)
                            ELSE Fail(p)
            IN Right(parse_subexpr(ts, p + 1, np))

parse_subexpr(ts, p, prec) ==
    LET Left(l) == IF l.ok THEN parse_infix_loop(ts, l.n, l.p, prec) ELSE Fail(p)
    IN Left(parse_prefix(ts, p))

\* Parser::parse_select_item
parse_select_item(ts, p) ==
    IF IsSym(At(ts, p), "*") THEN Done(Wildcard, p + 1)
    ELSE IF IsIdentTok(At(ts, p)) /\ IsSym(At(ts, p + 1), ".") /\ IsSym(At(ts, p + 2), "*")
    THEN Done(QualifiedWildcard(<<Ident(At(ts, p).v, At(ts, p).q)>>), p + 3)
    ELSE LET Item(e) ==
                 IF ~e.ok THEN Fail(p)
                 ELSE IF IsKw(At(ts, e.p), kwAS)
                 THEN IF IsIdentTok(At(ts, e.p + 1))
                      THEN Done(ExprWithAlias(e.n, Ident(At(ts, e.p + 1).v,
                                                         At(ts, e.p + 1).q)),
                                e.p + 2)
                      ELSE Fail(p)
                 ELSE IF IsIdentTok(At(ts, e.p))
                 THEN Done(ExprWithAlias(e.n, Ident(At(ts, e.p).v, At(ts, e.p).q)),
                           e.p + 1)
                 ELSE Done(UnnamedExpr(e.n), e.p)
         IN Item(parse_expr(ts, p))

\* Parser::parse_projection: comma-separated select items
parse_projection(ts, p, acc) ==
    LET Rest(it) ==
            IF ~it.ok THEN Fail(p)
            ELSE IF IsSym(At(ts, it.p), ",")
            THEN parse_projection(ts, it.p + 1, Append(acc, it.n))
            ELSE DoneList(Append(acc, it.n), it.p)
    IN Rest(parse_select_item(ts, p))

\* Parser::parse_optional_table_alias, as [alias, p]
TableAliasAt(ts, p) ==
    IF IsKw(At(ts, p), kwAS) /\ IsIdentTok(At(ts, p + 1))
    THEN [alias |-> <<Ident(At(ts, p + 1).v, At(ts, p + 1).q)>>, p |-> p + 2]
    ELSE IF IsIdentTok(At(ts, p))
    THEN [alias |-> <<Ident(At(ts, p).v, At(ts, p).q)>>, p |-> p + 1]
    ELSE [alias |-> <<>>, p |-> p]

\* Parser::parse_table_factor: a derived subquery or a named table
parse_table_factor(ts, p) ==
    IF IsSym(At(ts, p), "(")
    THEN LET Aliased(q, a) == Done(Derived(q.n, a.alias), a.p)
             Sub(q) == IF q.ok /\ IsSym(At(ts, q.p), ")")
                       THEN Aliased(q, TableAliasAt(ts, q.p + 1))
                       ELSE Fail(p)
         IN Sub(parse_query(ts, p + 1))
    ELSE LET Aliased(nm, a) == Done(Table(nm.ns, a.alias), a.p)
             Named(nm) ==
                 IF ~nm.ok \/ (IsKw(At(ts, nm.p), kwAS) /\ ~IsIdentTok(At(ts, nm.p + 1)))
                 THEN Fail(p)
                 ELSE Aliased(nm, TableAliasAt(ts, nm.p))
         IN Named(parse_object_name(ts, p, <<>>))

\* the FROM list: comma-separated table factors
parse_from(ts, p, acc) ==
    LET Rest(tf) ==
            IF ~tf.ok THEN Fail(p)
            ELSE IF IsSym(At(ts, tf.p), ",")
            THEN parse_from(ts, tf.p + 1, Append(acc, TableWithJoins(tf.n)))
            ELSE DoneList(Append(acc, TableWithJoins(tf.n)), tf.p)
    IN Rest(parse_table_factor(ts, p))

\* Parser::parse_select
parse_select(ts, p) ==
    IF ~IsKw(At(ts, p), kwSELECT) THEN Fail(p)
    ELSE LET Where(pr, fr, w) ==
                 IF w.ok THEN Done(Select(pr.ns, fr.ns, <<w.n>>), w.p) ELSE Fail(p)
             From(pr, fr) ==
                 IF ~fr.ok THEN Fail(p)
                 ELSE IF IsKw(At(ts, fr.p), kwWHERE)
                 THEN Where(pr, fr, parse_expr(ts, fr.p + 1))
                 ELSE Done(Select(pr.ns, fr.ns, <<>>), fr.p)
             Projection(pr) ==
                 IF ~pr.ok THEN Fail(p)
                 ELSE From(pr, IF IsKw(At(ts, pr.p), kwFROM)
                               THEN parse_from(ts, pr.p + 1, <<>>)
                               ELSE DoneList(<<>>, pr.p))
         IN Projection(parse_projection(ts, p + 1, <<>>))

\* one operand of a set operation: a SELECT or a parenthesised query
parse_set_primary(ts, p) ==
    IF IsKw(At(ts, p), kwSELECT) THEN parse_select(ts, p)
    ELSE IF IsSym(At(ts, p), "(")
    THEN LET Sub(q) == IF q.ok /\ IsSym(At(ts, q.p), ")")
                       THEN Done(SetQuery(q.n), q.p + 1)
                       ELSE Fail(p)
         IN Sub(parse_query(ts, p + 1))
    ELSE Fail(p)

parse_set_tail(ts, left, p) ==
    IF IsKw(At(ts, p), kwUNION)
    THEN LET Right(r) == IF r.ok THEN parse_set_tail(ts, SetOperation(left, r.n), r.p)
                         ELSE Fail(p)
         IN Right(parse_set_primary(ts, p + 1))
    ELSE Done(left, p)

\* Parser::parse_query_body
parse_query_body(ts, p) ==
    LET Left(l) == IF l.ok THEN parse_set_tail(ts, l.n, l.p) ELSE Fail(p)
    IN Left(parse_set_primary(ts, p))

parse_order_list(ts, p, acc) ==
    LET Rest(e) ==
            IF ~e.ok THEN Fail(p)
            ELSE IF IsSym(At(ts, e.p), ",")
            THEN parse_order_list(ts, e.p + 1, Append(acc, e.n))
            ELSE DoneList(Append(acc, e.n), e.p)
    IN Rest(parse_expr(ts, p))

\* Parser::parse_query: the body and an optional ORDER BY
parse_query(ts, p) ==
    LET Ordered(b, o) == IF o.ok THEN Done(Query(b.n, o.ns), o.p) ELSE Fail(p)
        Body(b) ==
            IF ~b.ok THEN Fail(p)
            ELSE IF IsKw(At(ts, b.p), kwORDER)
            THEN IF IsKw(At(ts, b.p + 1), kwBY)
                 THEN Ordered(b, parse_order_list(ts, b.p + 2, <<>>))
                 ELSE Fail(p)
            ELSE Done(Query(b.n, <<>>), b.p)
    IN Body(parse_query_body(ts, p))

\* Parser::parse_statement: only queries belong to the subset
parse_statement(ts, p) ==
    IF IsKw(At(ts, p), kwSELECT) \/ IsSym(At(ts, p), "(")
    THEN LET Stmt(q) == IF q.ok THEN Done(StatementQuery(q.n), q.p) ELSE Fail(p)
         IN Stmt(parse_query(ts, p))
    ELSE Fail(p)

RECURSIVE SkipSemicolons(_, _)
SkipSemicolons(ts, p) == IF IsSym(At(ts, p), ";") THEN SkipSemicolons(ts, p + 1) ELSE p

\* Parser::parse_statements: statements separated by ';'
RECURSIVE parse_statements(_, _, _, _)
parse_statements(ts, p, acc, expecting_statement_delimiter) ==
    LET Stmt(q, st) == IF st.ok THEN parse_statements(ts, st.p, Append(acc, st.n), TRUE)
                       ELSE Fail(q)
        From(q) == IF q > Len(ts) THEN DoneList(acc, q)
                   ELSE IF expecting_statement_delimiter /\ q = p THEN Fail(p)
                   ELSE Stmt(q, parse_statement(ts, q))
    IN From(SkipSemicolons(ts, p))

\* Parser::parse_sql(&GenericDialect, sql): [ok, ns]
parse_sql(sql) ==
    LET Tokens(tz) == IF tz.ok THEN parse_statements(tz.toks, 1, <<>>, FALSE) ELSE Fail(1)
    IN Tokens(Tokenize(sql, 1, <<>>))

(***************************************************************************)
(* Display (sqlparser::ast, impl fmt::Display): the tree rendered to text. *)
(* A BinaryOp is written "left op right" with no parentheses of its own;   *)
(* only a Nested node writes parentheses.                                  *)
(***************************************************************************)
\* impl Display for Ident
FmtIdent(id) == IF id.q = "" THEN id.v ELSE <<id.q>> \o id.v \o <<id.q>>
\* impl Display for ObjectName
FmtObjectName(ids) == Join([i \in DOMAIN ids |-> FmtIdent(ids[i])], <<".">>)

\* value::escape_single_quote_string: every ' is written ''
\* a variant that writes the string as it is
escape_single_quote_string_raw(s) == s

RECURSIVE escape_single_quote_string(_)
escape_single_quote_string(s) ==
    IF s = <<>> THEN <<>>
    ELSE (IF Head(s) = "'" THEN <<"'", "'">> ELSE <<Head(s)>>)
         \o escape_single_quote_string(Tail(s))

RECURSIVE FmtExpr(_), FmtQuery(_), FmtSetExpr(_), FmtSelect(_), FmtTableFactor(_),
          FmtSelectItem(_)

FmtExpr(e) ==
    CASE e.kind = "Identifier" -> FmtIdent(e.id)
      [] e.kind = "CompoundIdentifier" -> FmtObjectName(e.ids)
      [] e.kind = "Number" -> e.s
      [] e.kind = "SingleQuotedString" -> <<"'">> \o escape_single_quote_string(e.s) \o <<"'">>
      [] e.kind = "BinaryOp" ->
            FmtExpr(e.left) \o SP
            \o (IF e.op = "OR" THEN kwOR ELSE IF e.op = "AND" THEN kwAND ELSE <<"=">>)
            \o SP \o FmtExpr(e.right)
      [] e.kind = "Nested" -> <<"(">> \o FmtExpr(e.e) \o <<")">>
      [] e.kind = "IsNull" -> FmtExpr(e.e) \o SP \o kwIS \o SP \o kwNULL
      [] e.kind = "Function" ->
            FmtObjectName(e.name) \o <<"(">>
            \o (IF e.star THEN <<"*">>
                ELSE Join([i \in DOMAIN e.args |-> FmtExpr(e.args[i])], <<",", " ">>))
            \o <<")">>
      [] e.kind = "Subquery" -> <<"(">> \o FmtQuery(e.query) \o <<")">>

FmtSelectItem(it) ==
    CASE it.kind = "Wildcard" -> <<"*">>
      [] it.kind = "QualifiedWildcard" -> FmtObjectName(it.name) \o <<".", "*">>
      [] it.kind = "UnnamedExpr" -> FmtExpr(it.expr)
      [] it.kind = "ExprWithAlias" ->
            FmtExpr(it.expr) \o SP \o kwAS \o SP \o FmtIdent(it.ialias)

FmtAlias(alias) == IF alias = <<>> THEN <<>> ELSE SP \o kwAS \o SP \o FmtIdent(alias[1])

FmtTableFactor(tf) ==
    CASE tf.kind = "Table" -> FmtObjectName(tf.name) \o FmtAlias(tf.alias)
      [] tf.kind = "Derived" ->
            <<"(">> \o FmtQuery(tf.subquery) \o <<")">> \o FmtAlias(tf.alias)

FmtSelect(sel) ==
    kwSELECT \o SP
    \o Join([i \in DOMAIN sel.projection |-> FmtSelectItem(sel.projection[i])], <<",", " ">>)
    \o (IF sel.from = <<>> THEN <<>>
        ELSE SP \o kwFROM \o SP
             \o Join([i \in DOMAIN sel.from |-> FmtTableFactor(sel.from[i].relation)],
                     <<",", " ">>))
    \o (IF sel.selection = <<>> THEN <<>>
        ELSE SP \o kwWHERE \o SP \o FmtExpr(sel.selection[1]))

FmtSetExpr(b) ==
    CASE b.kind = "Select" -> FmtSelect(b)
      [] b.kind = "Query" -> <<"(">> \o FmtQuery(b.query) \o <<")">>
      [] b.kind = "SetOperation" ->
            FmtSetExpr(b.left) \o SP \o kwUNION \o SP \o FmtSetExpr(b.right)

FmtQuery(q) ==
    FmtSetExpr(q.body)
    \o (IF q.order_by = <<>> THEN <<>>
        ELSE SP \o kwORDER \o SP \o kwBY \o SP
             \o Join([i \in DOMAIN q.order_by |-> FmtExpr(q.order_by[i])], <<",", " ">>))

\* impl Display for Statement (Statement::Query)
FmtStatement(st) == FmtQuery(st.query)

(***************************************************************************)
(* Request context (src/src/auto_field_trait.rs)                           *)
(***************************************************************************)
acme == <<"a","c","m","e">>
\* a tenant id that holds a single quote
o_k == <<"o","'","k">>
\* a tenant id that holds a SQL fragment: x' OR '1'='1
x_or_1 == <<"x","'"," ","O","R"," ","'","1","'","=","'","1">>

\* AutoFieldContext, its tenant_id only: Option<String>
AutoFieldContext(tenant) == [tenant_id |-> tenant]
\* AutoFieldContext::default()
AutoFieldContextDefault == AutoFieldContext(<<>>)

\* the functions a caller may register, by name, and what each returns
Getters == {"default_context_getter", "getter_acme", "getter_empty", "getter_quote",
            "getter_fragment"}
CallGetter(g) ==
    CASE g = "default_context_getter" -> AutoFieldContextDefault
      [] g = "getter_acme" -> AutoFieldContext(<<acme>>)
      [] g = "getter_empty" -> AutoFieldContext(<< <<>> >>)
      [] g = "getter_quote" -> AutoFieldContext(<<o_k>>)
      [] g = "getter_fragment" -> AutoFieldContext(<<x_or_1>>)

\* get_current_context / AutoFieldContext::current_safe, with the getter read
get_current_context(getter) == CallGetter(getter)

(***************************************************************************)
(* DefaultQueryHook (src/src/extract_hook.rs).  self is the hook object:   *)
(* [impl, enable_soft_delete, enable_tenant_filter, skip_tables].          *)
(***************************************************************************)
\* DefaultQueryHook::new
DefaultQueryHookNew(soft, tenant) ==
    [impl |-> "DefaultQueryHook", enable_soft_delete |-> soft,
     enable_tenant_filter |-> tenant, skip_tables |-> {}]

\* a variant that inserts the name as it was given
add_skip_table_verbatim(self, table_name) ==
    [self EXCEPT !.skip_tables = @ \cup {table_name}]

add_skip_table(self, table_name) ==
    [self EXCEPT !.skip_tables = @ \cup {to_lowercase(table_name)}]

remove_skip_table(self, table_name) ==
    [self EXCEPT !.skip_tables = @ \ {to_lowercase(table_name)}]

should_skip_table(self, table_name) == to_lowercase(table_name) \in self.skip_tables

RECURSIVE extract_table_name_from_set_expr(_)

\* Option<String>: the driving table of a query
extract_table_name(query) == extract_table_name_from_set_expr(query.body)

\* the quote removal of lines 107-111: only a pair of double quotes is removed
StripDoubleQuotes(table_name) ==
    IF table_name # <<>> /\ Head(table_name) = DQ /\ table_name[Len(table_name)] = DQ
    THEN SubSeq(table_name, 2, Len(table_name) - 1)
    ELSE table_name

extract_table_name_from_set_expr(set_expr) ==
    IF set_expr.kind = "Select"
    THEN IF set_expr.from # <<>>
         THEN LET relation == set_expr.from[1].relation IN
              IF relation.kind = "Table"
              THEN LET last_ident == relation.name[Len(relation.name)]
                       table_name == StripDoubleQuotes(to_lowercase(FmtIdent(last_ident)))
                   IN IF table_name # <<>> THEN <<table_name>> ELSE <<>>
              ELSE IF relation.kind = "Derived"
              THEN extract_table_name(relation.subquery)
              ELSE <<>>
         ELSE <<>>
    ELSE IF set_expr.kind = "Query" THEN extract_table_name(set_expr.query)
    ELSE <<>>

\* a variant that never recognises the COUNT idiom
is_count_query_never(select) == FALSE

is_count_query(select) ==
    IF Len(select.projection) # 1 THEN FALSE
    ELSE LET item == select.projection[1] IN
         IF item.kind \in {"ExprWithAlias", "UnnamedExpr"} /\ item.expr.kind = "Function"
         THEN LET func == item.expr IN
              IF eq_ignore_ascii_case(FmtIdent(func.name[Len(func.name)]), kwCOUNT)
              THEN eq_ignore_ascii_case(FmtExpr(func), kwCOUNT \o <<"(", "*", ")">>)
              ELSE FALSE
         ELSE FALSE

\* a variant that falls back to the table name when there is no alias
extract_table_alias_or_name_named(select) ==
    IF select.from = <<>> THEN <<>>
    ELSE IF select.from[1].relation.kind = "Table"
    THEN IF select.from[1].relation.alias # <<>>
         THEN <<FmtIdent(select.from[1].relation.alias[1])>>
         ELSE <<FmtObjectName(select.from[1].relation.name)>>
    ELSE <<>>

\* Option<String>: the alias of the first FROM entry, when it is a table with one
extract_table_alias_or_name(select) ==
    IF select.from = <<>> THEN <<>>
    ELSE LET table == select.from[1] IN
         IF table.relation.kind = "Table"
         THEN IF table.relation.alias # <<>>
              THEN <<FmtIdent(table.relation.alias[1])>>
              ELSE <<>>
         ELSE <<>>

create_field_expr(field_name, table_alias) ==
    IF table_alias # <<>>
    THEN CompoundIdentifier(<<IdentNew(table_alias[1]), IdentNew(field_name)>>)
    ELSE Identifier(IdentNew(field_name))

\* conditions.into_iter().reduce(|left, right| left AND right)
RECURSIVE ReduceAnd(_, _)
ReduceAnd(acc, rest) ==
    IF rest = <<>> THEN acc ELSE ReduceAnd(BinaryOp(acc, "AND", Head(rest)), Tail(rest))

\* the group built from the conditions (lines 272-283)
combined_condition(conditions) ==
    IF Len(conditions) = 1 THEN conditions[1]
    ELSE Nested(ReduceAnd(Head(conditions), Tail(conditions)))

\* a variant without the test that the tenant id is not empty
Conditions_NoEmptyCheck(self, getter, select) ==
    (IF self.enable_soft_delete
     THEN <<BinaryOp(create_field_expr(delete_flag, extract_table_alias_or_name(select)),
                     "=", Number(<<"0">>))>>
     ELSE <<>>)
    \o (IF self.enable_tenant_filter /\ get_current_context(getter).tenant_id # <<>>
        THEN <<BinaryOp(create_field_expr(tenant_id, extract_table_alias_or_name(select)),
                        "=", SingleQuotedString(get_current_context(getter).tenant_id[1]))>>
        ELSE <<>>)

\* a variant that pushes the delete_flag condition only onto a SELECT that
\* has a WHERE clause already
Conditions_SoftOnlyOnWhere(self, getter, select) ==
    (IF self.enable_soft_delete /\ select.selection # <<>>
     THEN <<BinaryOp(create_field_expr(delete_flag, extract_table_alias_or_name(select)),
                     "=", Number(<<"0">>))>>
     ELSE <<>>)
    \o (IF self.enable_tenant_filter /\ get_current_context(getter).tenant_id # <<>>
           /\ get_current_context(getter).tenant_id[1] # <<>>
        THEN <<BinaryOp(create_field_expr(tenant_id, extract_table_alias_or_name(select)),
                        "=", SingleQuotedString(get_current_context(getter).tenant_id[1]))>>
        ELSE <<>>)

\* the conditions pushed for one SELECT (lines 242-269)
Conditions(self, getter, select) ==
    LET table_alias == extract_table_alias_or_name(select)
        soft == IF self.enable_soft_delete
                THEN <<BinaryOp(create_field_expr(delete_flag, table_alias), "=",
                                Number(<<"0">>))>>
                ELSE <<>>
        context == get_current_context(getter)
        tenant == IF self.enable_tenant_filter
                     /\ context.tenant_id # <<>> /\ context.tenant_id[1] # <<>>
                  THEN <<BinaryOp(create_field_expr(tenant_id, table_alias), "=",
                                  SingleQuotedString(context.tenant_id[1]))>>
                  ELSE <<>>
    IN soft \o tenant

\* a variant that also replaces the projection by *
add_conditions_to_select_star(self, getter, select) ==
    [select EXCEPT !.projection = <<Wildcard>>,
                   !.selection = <<BinaryOp(Identifier(IdentNew(delete_flag)), "=",
                                            Number(<<"0">>))>>]

\* the select with the conditions merged into its WHERE clause
add_conditions_to_select(self, getter, select) ==
    LET Merge(conditions) ==
            IF conditions # <<>>
            THEN IF select.selection # <<>>
                 THEN [select EXCEPT !.selection =
                          <<BinaryOp(select.selection[1], "AND",
                                     combined_condition(conditions))>>]
                 ELSE [select EXCEPT !.selection = <<combined_condition(conditions)>>]
            ELSE select
    IN Merge(Conditions(self, getter, select))

RECURSIVE add_conditions_to_query(_, _, _), add_conditions_to_set_expr(_, _, _)

\* the loop of lines 145-150 over the FROM list of a COUNT query
CountFrom(self, getter, from) ==
    [i \in DOMAIN from |->
        IF from[i].relation.kind = "Derived"
        THEN [from[i] EXCEPT !.relation.subquery =
                 add_conditions_to_query(self, getter, from[i].relation.subquery)]
        ELSE from[i]]

add_conditions_to_query(self, getter, query) ==
    IF query.body.kind = "Select" /\ is_count_query(query.body)
    THEN [query EXCEPT !.body.from = CountFrom(self, getter, query.body.from)]
    ELSE [query EXCEPT !.body = add_conditions_to_set_expr(self, getter, query.body)]

add_conditions_to_set_expr(self, getter, set_expr) ==
    IF set_expr.kind = "Select" THEN add_conditions_to_select(self, getter, set_expr)
    ELSE IF set_expr.kind = "Query"
    THEN [set_expr EXCEPT !.query = add_conditions_to_query(self, getter, set_expr.query)]
    ELSE set_expr

\* a variant that hands back the trimmed text instead of the text it was given
add_default_conditions_trimmed(self, getter, sql) ==
    [ok |-> TRUE, sql |-> trim(sql), parse_calls |-> 1]

\* Result<String, DbErr> with the number of parser runs: [ok, sql, parse_calls]
add_default_conditions(self, getter, sql) ==
    LET Rewrite(statement, table_name) ==
            IF statement.kind = "Query" /\ table_name # <<>>
            THEN IF should_skip_table(self, table_name[1])
                 THEN [ok |-> TRUE, sql |-> sql, parse_calls |-> 1]
                 ELSE [ok |-> TRUE, parse_calls |-> 1,
                       sql |-> FmtStatement(
                           [statement EXCEPT !.query =
                               add_conditions_to_query(self, getter, @)])]
            ELSE [ok |-> TRUE, sql |-> FmtStatement(statement), parse_calls |-> 1]
        Statements(statements) ==
            IF statements = <<>> THEN [ok |-> TRUE, sql |-> sql, parse_calls |-> 1]
            ELSE Rewrite(statements[1], extract_table_name(statements[1].query))
        Parsed(parsed) ==
            IF parsed.ok THEN Statements(parsed.ns)
            ELSE [ok |-> TRUE, sql |-> sql, parse_calls |-> 1]
    IN Parsed(parse_sql(sql))

\* Result<Option<String>, DbErr>: [ok, some, sql, parse_calls];
\* Ok(None) is ok /\ ~some, Ok(Some(s)) is ok /\ some /\ sql = s
OkNone(n) == [ok |-> TRUE, some |-> FALSE, sql |-> <<>>, parse_calls |-> n]
OkSome(s, n) == [ok |-> TRUE, some |-> TRUE, sql |-> s, parse_calls |-> n]
ErrResult(n) == [ok |-> FALSE, some |-> FALSE, sql |-> <<>>, parse_calls |-> n]

\* impl QueryHook for DefaultQueryHook
before_query(self, getter, sql) ==
    LET sql_upper == to_uppercase(trim(sql))
        Outcome(r) ==
            IF r.ok
            THEN IF r.sql # sql THEN OkSome(r.sql, r.parse_calls) ELSE OkNone(r.parse_calls)
            ELSE OkNone(r.parse_calls)
    IN IF ~starts_with(sql_upper, kwSELECT) THEN OkNone(0)
       ELSE Outcome(add_default_conditions(self, getter, sql))

(***************************************************************************)
(* Inputs: the SQL texts handed to before_query                            *)
(***************************************************************************)
\* longest AND/OR chain in a generated WHERE clause
MaxTerms == 2
\* deepest nesting of derived subqueries in a generated statement
MaxNest == 1

star == <<"*">>
t_ == <<"t">>
u_ == <<"u">>
x_ == <<"x">>
s_ == <<"s">>
a_ == <<"a">>
kwSelectLower == to_lowercase(kwSELECT)
countStar == kwCOUNT \o <<"(", "*", ")">>

\* words separated by single spaces
Words(ws) == Join(ws, SP)
Paren(txt) == <<"(">> \o txt \o <<")">>

\* SELECT <proj> FROM <from> [WHERE <w>]; w = <<>> for no WHERE clause
Sel(proj, from, w) ==
    Words(<<kwSELECT, proj, kwFROM, from>>)
    \o (IF w = <<>> THEN <<>> ELSE SP \o kwWHERE \o SP \o w)

\* the chain c1 op1 c2 op2 ... cn over the columns a, b, c, ...
RECURSIVE ChainText(_, _, _)
ChainText(n, ops, i) ==
    IF i = n THEN <<LowerLetters[i]>>
    ELSE <<LowerLetters[i]>> \o SP \o ops[i] \o SP \o ChainText(n, ops, i + 1)
WhereChains ==
    UNION {{ChainText(n, ops, 1) : ops \in [1..(n - 1) -> {kwOR, kwAND}]} : n \in 1..MaxTerms}

a_or_b == Words(<<a_, kwOR, <<"b">> >>)
Wheres ==
    WhereChains
    \cup {Paren(a_or_b),
          Words(<<a_, <<"=">>, <<"1">>, kwOR, <<"b">>, kwIS, kwNULL>>),
          Paren(a_or_b) \o SP \o kwAND \o SP \o <<"c">>,
          Words(<<a_, <<"=">>, <<"'", "v", "'">> >>)}

\* ways of writing the driving table: [ref, col]: the FROM entry and a column of it
TableRefs ==
    {[ref |-> t_, col |-> a_],
     [ref |-> <<"T">>, col |-> a_],
     [ref |-> <<"s", ".", "t">>, col |-> a_],
     [ref |-> <<DQ, "t", DQ>>, col |-> a_],
     [ref |-> <<DQ, "T", DQ>>, col |-> a_],
     [ref |-> <<BQ, "t", BQ>>, col |-> a_],
     [ref |-> u_, col |-> a_],
     [ref |-> Words(<<t_, kwAS, x_>>), col |-> <<"x", ".", "a">>],
     [ref |-> Words(<<t_, x_>>), col |-> <<"x", ".", "a">>],
     [ref |-> Words(<<t_, kwAS, <<DQ, "X", DQ>> >>), col |-> <<DQ, "X", DQ, ".", "a">>]}

PlainInputs == {Sel(star, t_, w) : w \in Wheres \cup {<<>>}}
TableInputs == {Sel(star, r.ref, w) : r \in TableRefs, w \in {<<>>}}
               \cup {Sel(star, r.ref, r.col) : r \in TableRefs}

\* the innermost statements of the nested inputs
BaseSelects ==
    {Sel(a_, t_, <<>>), Sel(a_, t_, a_or_b), Sel(a_, Words(<<t_, kwAS, x_>>), <<"x", ".", "a">>),
     Sel(a_, u_, a_)}

\* a statement around a derived subquery
Wrappers(inner) ==
    {Sel(countStar, Paren(inner) \o SP \o kwAS \o SP \o s_, <<>>),
     Sel(Words(<<to_lowercase(countStar), kwAS, <<"n">> >>), Paren(inner) \o SP \o s_, <<>>),
     Sel(star, Paren(inner) \o SP \o kwAS \o SP \o s_, <<>>)}

RECURSIVE Nesting(_)
Nesting(d) ==
    IF d = 0 THEN BaseSelects
    ELSE LET prev == Nesting(d - 1) IN prev \cup UNION {Wrappers(q) : q \in prev}

sub_t == Paren(Sel(a_, t_, <<>>)) \o SP \o kwAS \o SP \o s_
sub_u == Paren(Sel(a_, u_, a_)) \o SP \o kwAS \o SP \o <<"r">>
CountInputs ==
    {Sel(countStar, t_, <<>>),
     Sel(countStar, t_, a_),
     Sel(countStar, Words(<<t_, kwAS, x_>>), <<>>),
     Sel(kwCOUNT \o Paren(a_), t_, <<>>),
     Sel(countStar \o <<",", " ">> \o a_, t_, <<>>),
     Sel(countStar, sub_t \o <<",", " ">> \o sub_u, <<>>),
     Sel(countStar, sub_u \o <<",", " ">> \o sub_t, <<>>),
     Sel(countStar, t_ \o <<",", " ">> \o sub_u, <<>>),
     Sel(countStar, sub_t, <<"s", ".", "a">>),
     Sel(countStar, Paren(Paren(Sel(a_, t_, a_))) \o SP \o kwAS \o SP \o s_, <<>>),
     Sel(countStar,
         Paren(Words(<<Sel(a_, t_, <<>>), kwUNION, Sel(a_, u_, <<>>)>>)) \o SP \o kwAS \o SP \o s_,
         <<>>)}

\* statements with no driving table
NoTableInputs ==
    {Words(<<kwSELECT, <<"1">> >>),
     Words(<<kwSelectLower, <<"1">> >>),
     Words(<<kwSELECT, <<"1">> >>) \o <<";">>,
     kwSELECT \o <<" ", " ", "1">>,
     to_lowercase(Words(<<Sel(a_, t_, <<>>), kwUNION, Sel(a_, u_, <<>>)>>)),
     Words(<<Sel(a_, t_, <<>>), kwUNION, Sel(a_, u_, <<>>)>>)}

\* other spellings of a statement: letter case, white space, semicolon
SpelledInputs ==
    {to_lowercase(Sel(star, t_, a_)),
     SP \o Sel(star, t_, a_) \o SP,
     Sel(star, t_, a_) \o <<";">>,
     <<"\n">> \o kwSelectLower \o <<" ", " ", "*", " ", "F", "r", "o", "m", " ", "t">>,
     Words(<<Sel(star, t_, <<>>), kwORDER, kwBY, a_>>),
     Sel(a_, t_, <<>>) \o <<";", " ">> \o Sel(<<"b">>, u_, <<>>)}

\* texts whose first word is not SELECT
NonSelectInputs ==
    {Words(<<kwDELETE, kwFROM, t_>>),
     Words(<<to_lowercase(kwUPDATE), t_, <<"S", "E", "T">>, a_, <<"=">>, <<"1">> >>),
     Words(<<kwINSERT, <<"I", "N", "T", "O">>, t_, <<"V", "A", "L", "U", "E", "S">>, Paren(<<"1">>)>>),
     Words(<<kwWITH, <<"c">>, kwAS, Paren(Sel(a_, t_, <<>>)), Sel(star, <<"c">>, <<>>)>>),
     Paren(Sel(a_, t_, <<>>)),
     <<>>,
     SP,
     Words(<<kwSELECT \o <<"E", "D">>, a_, kwFROM, t_>>),
     Words(<<kwSelectLower \o <<"i", "o", "n">>, Paren(<<"1">>)>>),
     kwSELECT \o <<"_", "a">>,
     kwSelectLower \o <<"1">>}

\* texts that begin with SELECT and that the parser rejects
GarbledInputs ==
    {Words(<<kwSELECT, kwFROM, t_>>),
     Words(<<Sel(star, t_, <<>>), kwWHERE>>),
     Sel(star, t_, <<"(", "a">>),
     Words(<<kwSELECT, <<"'", "a">>, kwFROM, t_>>),
     Words(<<kwSELECT, star, kwFROM>>),
     Words(<<kwSelectLower, star, kwFROM, <<DQ, "t">> >>),
     SP \o Sel(star, t_, Words(<<a_, kwAND>>)),
     Words(<<Sel(star, t_, <<>>), Sel(star, t_, <<>>)>>),
     kwSELECT}

Inputs ==
    PlainInputs \cup TableInputs \cup Nesting(MaxNest) \cup CountInputs
    \cup NoTableInputs \cup SpelledInputs \cup NonSelectInputs \cup GarbledInputs

\* names given to add_skip_table and remove_skip_table
SkipNames == {t_, <<"T">>}

(***************************************************************************)
(* Concurrent callers: requests, and the threads on the two RwLocks        *)
(***************************************************************************)
\* two requests in flight, each with a context getter of its own
Requests == {"r1", "r2"}
RequestGetter(r) == IF r = "r1" THEN "getter_acme" ELSE "getter_quote"
RequestTenant(r) == CallGetter(RequestGetter(r)).tenant_id[1]
ReqIdle == [pc |-> "start", sql |-> <<>>, res |-> [ok |-> TRUE, some |-> FALSE,
                                                   sql |-> <<>>, parse_calls |-> 0]]

\* parking_lot::RwLock: one writer or any number of readers
RwLockNew == [writer |-> "", readers |-> {}]
\* a variant that lets a reader in while a writer holds the lock
RwLockCanRead_unguarded(l) == TRUE
RwLockCanRead(l) == l.writer = ""
RwLockCanWrite(l) == l.writer = "" /\ l.readers = {}

\* Option<Arc<dyn QueryHook>> as it lies in memory: the two words of the
\* fat pointer, both null for None
HookImpl(h) == IF h = "veto" THEN "VetoHook" ELSE "DefaultQueryHook"
FatNone == [data |-> "null", vtable |-> "null"]
Fat(h) == [data |-> h, vtable |-> HookImpl(h)]
RegThreads == {"t1", "t2", "t3"}
RegHooks == {"p1", "veto"}
RegThreadIdle == [pc |-> "idle", arg |-> FatNone, got |-> FatNone, at_lock |-> FatNone]

\* slot: the registry cell; last: the value of the last write that completed
RegInit == [lock |-> RwLockNew, slot |-> FatNone, last |-> FatNone,
            thr |-> [t \in RegThreads |-> RegThreadIdle]]
\* the threads that share one DefaultQueryHook, and the names they use
SkpNames == {<<"t">>, <<"T">>}
SkpThreads == {"t1", "t2", "t3"}
SkpThreadIdle == [pc |-> "idle", name |-> <<>>, found |-> FALSE, saw_mid |-> FALSE,
                  at_lock |-> {}]
\* hook: the shared hook object; mid: its HashSet is in the middle of an
\* update; names: the names added and not removed since, as they were given
SkpInit == [lock |-> RwLockNew, hook |-> DefaultQueryHookNew(TRUE, TRUE), mid |-> FALSE,
            names |-> {}, thr |-> [t \in SkpThreads |-> SkpThreadIdle]]

(***************************************************************************)
(* The caller of the hook: one call at a time                              *)
(***************************************************************************)
\* p1 and p2 are DefaultQueryHook objects; "veto" is another implementation
\* of the QueryHook trait, whose before_query returns Err
HookIds == {"p1", "p2", "veto"}
VetoHook == [impl |-> "VetoHook", enable_soft_delete |-> FALSE,
             enable_tenant_filter |-> FALSE, skip_tables |-> {}]
Idle == [pc |-> "idle", sql |-> <<>>, res |-> OkNone(0)]
OpIdle == [pc |-> "idle", method |-> "", sql |-> <<>>, res |-> OkNone(0),
           registered |-> <<>>, inner |-> "", ret |-> ""]

Init ==
    /\ \E soft \in BOOLEAN, tenant \in BOOLEAN :
          hooks = [h \in HookIds |->
                      IF h = "p1" THEN DefaultQueryHookNew(soft, tenant)
                      ELSE IF h = "p2" THEN DefaultQueryHookNew(TRUE, TRUE)
                      ELSE VetoHook]
    /\ CONTEXT_GETTER = "default_context_getter"
    /\ call = Idle
    /\ registry = <<>>
    /\ conn = <<>>
    /\ op = OpIdle
    /\ inner_log = <<>>
    /\ after_log = <<>>
    /\ reqs = [r \in Requests |-> ReqIdle]
    /\ reg = RegInit
    /\ skp = SkpInit

\* the state of the concurrent callers
ParVars == <<reqs, reg, skp>>
ConnVars == <<registry, conn, op, inner_log, after_log, ParVars>>

AddSkipTable(h, n) ==
    /\ call.pc = "idle"
    /\ hooks' = [hooks EXCEPT ![h] = add_skip_table(@, n)]
    /\ UNCHANGED <<CONTEXT_GETTER, call, ConnVars>>

RemoveSkipTable(h, n) ==
    /\ call.pc = "idle"
    /\ hooks' = [hooks EXCEPT ![h] = remove_skip_table(@, n)]
    /\ UNCHANGED <<CONTEXT_GETTER, call, ConnVars>>

\* register_context_getter
RegisterContextGetter(g) ==
    /\ call.pc = "idle"
    /\ CONTEXT_GETTER' = g
    /\ UNCHANGED <<hooks, call, ConnVars>>

\* hook.before_query(sql) on the hook p1
BeforeQuery(sql) ==
    /\ call.pc = "idle"
    /\ call' = [pc |-> "done", sql |-> sql,
                res |-> before_query(hooks["p1"], CONTEXT_GETTER, sql)]
    /\ UNCHANGED <<hooks, CONTEXT_GETTER, ConnVars>>

\* the caller is done with the result
Return ==
    /\ call.pc = "done"
    /\ call' = Idle
    /\ UNCHANGED <<hooks, CONTEXT_GETTER, ConnVars>>

Next ==
    \/ \E n \in SkipNames : AddSkipTable("p1", n)
    \/ \E n \in SkipNames : RemoveSkipTable("p1", n)
    \/ \E g \in Getters : RegisterContextGetter(g)
    \/ \E sql \in Inputs : BeforeQuery(sql)
    \/ Return

Spec == Init /\ [][Next]_vars

(***************************************************************************)
(* The hook registry and HookedConnection (src/src/extract_hook.rs)        *)
(***************************************************************************)
\* hook.before_query through the trait object: the implementation decides
HookBeforeQuery(h, getter, sql) ==
    IF hooks[h].impl = "DefaultQueryHook" THEN before_query(hooks[h], getter, sql)
    ELSE ErrResult(0)

\* statements sent through the connection
ConnInputs ==
    {Sel(star, t_, a_),
     to_lowercase(Sel(star, t_, <<>>)),
     Words(<<kwDELETE, kwFROM, t_>>),
     Words(<<kwSELECT, kwFROM, t_>>)}
Methods == {"execute", "execute_unprepared", "query_one", "query_all"}

EngineVars == <<hooks, CONTEXT_GETTER, call, ParVars>>

register_extract_hook(h) ==
    /\ registry' = <<h>>
    /\ UNCHANGED <<EngineVars, conn, op, inner_log, after_log>>

unregister_extract_hook ==
    /\ registry' = <<>>
    /\ UNCHANGED <<EngineVars, conn, op, inner_log, after_log>>

\* Option<Arc<dyn QueryHook>>
get_extract_hook == registry

\* HookedConnection::new(inner, hook)
HookedConnectionNew(h) ==
    /\ op.pc = "idle"
    /\ conn' = <<[hook |-> h]>>
    /\ UNCHANGED <<EngineVars, registry, op, inner_log, after_log>>

\* HookedConnection::new_with_global_hook(inner): None without a global hook
new_with_global_hook ==
    /\ op.pc = "idle"
    /\ conn' = [i \in DOMAIN get_extract_hook |-> [hook |-> get_extract_hook[i]]]
    /\ UNCHANGED <<EngineVars, registry, op, inner_log, after_log>>

\* execute / execute_unprepared / query_one / query_all up to the await of
\* the inner call: before_query, its error returned by `?`, else the
\* rewritten or the original statement sent to the inner connection
ExecBegin(method, sql) ==
    /\ conn # <<>>
    /\ op.pc = "idle"
    /\ LET Hooked(r) ==
               IF ~r.ok
               THEN /\ op' = [pc |-> "returned", method |-> method, sql |-> sql,
                              res |-> r, registered |-> registry, inner |-> "",
                              ret |-> "hook_err"]
                    /\ UNCHANGED inner_log
               ELSE /\ op' = [pc |-> "inner", method |-> method, sql |-> sql,
                              res |-> r, registered |-> registry, inner |-> "",
                              ret |-> ""]
                    /\ inner_log' = Append(inner_log,
                                           [method |-> method,
                                            sql |-> IF r.some THEN r.sql ELSE sql])
       IN Hooked(HookBeforeQuery(conn[1].hook, CONTEXT_GETTER, sql))
    /\ UNCHANGED <<EngineVars, registry, conn, after_log>>

\* a variant that tells after_query the statement the caller gave
ExecEnd_OriginalSql(inner) ==
    /\ op.pc = "inner"
    /\ after_log' = Append(after_log,
                           [hook |-> conn[1].hook, sql |-> op.sql, ok |-> inner = "ok"])
    /\ op' = [op EXCEPT !.pc = "returned", !.inner = inner, !.ret = inner]
    /\ UNCHANGED <<EngineVars, registry, conn, inner_log>>

\* the inner call completes with a value or a DbErr; after_query is told the
\* statement sent and the outcome; the inner result is returned
ExecEnd(inner) ==
    /\ op.pc = "inner"
    /\ after_log' = Append(after_log,
                           [hook |-> conn[1].hook,
                            sql |-> IF op.res.some THEN op.res.sql ELSE op.sql,
                            ok |-> inner = "ok"])
    /\ op' = [op EXCEPT !.pc = "returned", !.inner = inner, !.ret = inner]
    /\ UNCHANGED <<EngineVars, registry, conn, inner_log>>

\* the caller has its result; the next call starts with empty logs
ExecReturn ==
    /\ op.pc = "returned"
    /\ op' = OpIdle
    /\ inner_log' = <<>>
    /\ after_log' = <<>>
    /\ UNCHANGED <<EngineVars, registry, conn>>

NextConn ==
    \/ \E h \in HookIds : register_extract_hook(h)
    \/ unregister_extract_hook
    \/ \E h \in HookIds : HookedConnectionNew(h)
    \/ new_with_global_hook
    \/ \E m \in Methods, sql \in ConnInputs : ExecBegin(m, sql)
    \/ \E inner \in {"ok", "err"} : ExecEnd(inner)
    \/ ExecReturn

SpecConn == Init /\ [][NextConn]_vars

(***************************************************************************)
(* Concurrent requests and the context getter                              *)
(* (src/src/auto_field_trait.rs).  CONTEXT_GETTER is a `static mut` fn     *)
(* pointer written and read without synchronisation: a read that races a   *)
(* write yields the old or the new pointer, which is what the interleaving *)
(* of the two steps below produces.                                        *)
(***************************************************************************)
\* statements the requests send
ReqInputs == {Sel(star, t_, <<>>), Sel(star, Words(<<t_, x_>>), a_or_b),
              Sel(countStar, sub_t, <<>>)}

\* the request supplies its identity: register_context_getter(its getter)
ReqRegister(r) ==
    /\ reqs[r].pc = "start"
    /\ CONTEXT_GETTER' = RequestGetter(r)
    /\ reqs' = [reqs EXCEPT ![r].pc = "registered"]
    /\ UNCHANGED <<hooks, call, registry, conn, op, inner_log, after_log, reg, skp>>

\* the request's SELECT goes through before_query of the shared hook p2,
\* which calls get_current_context()
ReqRewrite(r, sql) ==
    /\ reqs[r].pc = "registered"
    /\ reqs' = [reqs EXCEPT ![r] = [pc |-> "done", sql |-> sql,
                                    res |-> before_query(hooks["p2"], CONTEXT_GETTER, sql)]]
    /\ UNCHANGED <<hooks, CONTEXT_GETTER, call, registry, conn, op, inner_log,
                   after_log, reg, skp>>

\* the request ends
ReqFinish(r) ==
    /\ reqs[r].pc = "done"
    /\ reqs' = [reqs EXCEPT ![r] = ReqIdle]
    /\ UNCHANGED <<hooks, CONTEXT_GETTER, call, registry, conn, op, inner_log,
                   after_log, reg, skp>>

NextReq ==
    \/ \E r \in Requests : ReqRegister(r)
    \/ \E r \in Requests, sql \in ReqInputs : ReqRewrite(r, sql)
    \/ \E r \in Requests : ReqFinish(r)

SpecReq == Init /\ [][NextReq]_vars

(***************************************************************************)
(* The hook registry under concurrent callers (src/src/extract_hook.rs,    *)
(* lines 443-461).  A write of the cell stores its two words one after the *)
(* other while the write guard is held; a read clones them one after the   *)
(* other while the read guard is held.                                     *)
(***************************************************************************)
RegOthers == <<hooks, CONTEXT_GETTER, call, registry, conn, op, inner_log, after_log,
               reqs, skp>>

\* EXTRACT_HOOK_REGISTRY.write() in register_extract_hook(h)
RegisterLock(t, h) ==
    /\ reg.thr[t].pc = "idle"
    /\ RwLockCanWrite(reg.lock)
    /\ reg' = [reg EXCEPT !.lock.writer = t,
                          !.thr[t] = [RegThreadIdle EXCEPT !.pc = "w_locked", !.arg = Fat(h)]]
    /\ UNCHANGED RegOthers

\* EXTRACT_HOOK_REGISTRY.write() in unregister_extract_hook()
UnregisterLock(t) ==
    /\ reg.thr[t].pc = "idle"
    /\ RwLockCanWrite(reg.lock)
    /\ reg' = [reg EXCEPT !.lock.writer = t,
                          !.thr[t] = [RegThreadIdle EXCEPT !.pc = "w_locked", !.arg = FatNone]]
    /\ UNCHANGED RegOthers

\* *registry = ...: the first word
StoreData(t) ==
    /\ reg.thr[t].pc = "w_locked"
    /\ reg' = [reg EXCEPT !.slot.data = reg.thr[t].arg.data, !.thr[t].pc = "w_half"]
    /\ UNCHANGED RegOthers

\* *registry = ...: the second word; the guard is dropped and the call returns
StoreVtable(t) ==
    /\ reg.thr[t].pc = "w_half"
    /\ reg' = [reg EXCEPT !.slot.vtable = reg.thr[t].arg.vtable,
                          !.last = reg.thr[t].arg,
                          !.lock.writer = "",
                          !.thr[t] = RegThreadIdle]
    /\ UNCHANGED RegOthers

\* EXTRACT_HOOK_REGISTRY.read() in get_extract_hook()
GetLock(t) ==
    /\ reg.thr[t].pc = "idle"
    /\ RwLockCanRead(reg.lock)
    /\ reg' = [reg EXCEPT !.lock.readers = @ \cup {t},
                          !.thr[t] = [RegThreadIdle EXCEPT !.pc = "r_locked",
                                                          !.at_lock = reg.last]]
    /\ UNCHANGED RegOthers

\* registry.clone(): the first word
LoadData(t) ==
    /\ reg.thr[t].pc = "r_locked"
    /\ reg' = [reg EXCEPT !.thr[t].got.data = reg.slot.data, !.thr[t].pc = "r_half"]
    /\ UNCHANGED RegOthers

\* registry.clone(): the second word; the guard is dropped
LoadVtable(t) ==
    /\ reg.thr[t].pc = "r_half"
    /\ reg' = [reg EXCEPT !.thr[t].got.vtable = reg.slot.vtable,
                          !.lock.readers = @ \ {t},
                          !.thr[t].pc = "got"]
    /\ UNCHANGED RegOthers

\* the caller of get_extract_hook has its value
GetReturn(t) ==
    /\ reg.thr[t].pc = "got"
    /\ reg' = [reg EXCEPT !.thr[t] = RegThreadIdle]
    /\ UNCHANGED RegOthers

NextReg ==
    \/ \E t \in RegThreads, h \in RegHooks : RegisterLock(t, h)
    \/ \E t \in RegThreads : UnregisterLock(t)
    \/ \E t \in RegThreads : StoreData(t)
    \/ \E t \in RegThreads : StoreVtable(t)
    \/ \E t \in RegThreads : GetLock(t)
    \/ \E t \in RegThreads : LoadData(t)
    \/ \E t \in RegThreads : LoadVtable(t)
    \/ \E t \in RegThreads : GetReturn(t)

SpecReg == Init /\ [][NextReg]_vars

(***************************************************************************)
(* The skip-list under concurrent callers (src/src/extract_hook.rs, lines  *)
(* 41-56).  An update of the HashSet takes the write guard, is under way   *)
(* (mid) and completes; a lookup takes the read guard and reads the set.   *)
(***************************************************************************)
SkpOthers == <<hooks, CONTEXT_GETTER, call, registry, conn, op, inner_log, after_log,
               reqs, reg>>

\* self.skip_tables.write() in add_skip_table(n)
SkipAddLock(t, n) ==
    /\ skp.thr[t].pc = "idle"
    /\ RwLockCanWrite(skp.lock)
    /\ skp' = [skp EXCEPT !.lock.writer = t,
                          !.thr[t] = [SkpThreadIdle EXCEPT !.pc = "add_locked", !.name = n]]
    /\ UNCHANGED SkpOthers

\* self.skip_tables.write() in remove_skip_table(n)
SkipRemoveLock(t, n) ==
    /\ skp.thr[t].pc = "idle"
    /\ RwLockCanWrite(skp.lock)
    /\ skp' = [skp EXCEPT !.lock.writer = t,
                          !.thr[t] = [SkpThreadIdle EXCEPT !.pc = "remove_locked", !.name = n]]
    /\ UNCHANGED SkpOthers

\* HashSet::insert / HashSet::remove under way
SkipMutate(t) ==
    /\ skp.thr[t].pc \in {"add_locked", "remove_locked"}
    /\ skp' = [skp EXCEPT !.mid = TRUE,
                          !.thr[t].pc = IF @ = "add_locked" THEN "add_mid" ELSE "remove_mid"]
    /\ UNCHANGED SkpOthers

\* skip_tables.insert(table_name.to_lowercase()) done; the guard is dropped
SkipInsert(t) ==
    /\ skp.thr[t].pc = "add_mid"
    /\ skp' = [skp EXCEPT !.hook = add_skip_table(@, skp.thr[t].name),
                          !.mid = FALSE,
                          !.names = @ \cup {skp.thr[t].name},
                          !.lock.writer = "",
                          !.thr[t] = SkpThreadIdle]
    /\ UNCHANGED SkpOthers

\* skip_tables.remove(&table_name.to_lowercase()) done; the guard is dropped
SkipRemove(t) ==
    /\ skp.thr[t].pc = "remove_mid"
    /\ skp' = [skp EXCEPT !.hook = remove_skip_table(@, skp.thr[t].name),
                          !.mid = FALSE,
                          !.names = {m \in @ : ~eq_ignore_ascii_case(m, skp.thr[t].name)},
                          !.lock.writer = "",
                          !.thr[t] = SkpThreadIdle]
    /\ UNCHANGED SkpOthers

\* self.skip_tables.read() in should_skip_table(n)
SkipLookupLock(t, n) ==
    /\ skp.thr[t].pc = "idle"
    /\ RwLockCanRead(skp.lock)
    /\ skp' = [skp EXCEPT !.lock.readers = @ \cup {t},
                          !.thr[t] = [SkpThreadIdle EXCEPT !.pc = "lookup_locked",
                                                          !.name = n,
                                                          !.at_lock = skp.names]]
    /\ UNCHANGED SkpOthers

\* skip_tables.contains(&table_name.to_lowercase()); the guard is dropped
SkipContains(t) ==
    /\ skp.thr[t].pc = "lookup_locked"
    /\ skp' = [skp EXCEPT !.thr[t].found = should_skip_table(skp.hook, skp.thr[t].name),
                          !.thr[t].saw_mid = skp.mid,
                          !.lock.readers = @ \ {t},
                          !.thr[t].pc = "looked"]
    /\ UNCHANGED SkpOthers

\* should_skip_table returns
SkipReturn(t) ==
    /\ skp.thr[t].pc = "looked"
    /\ skp' = [skp EXCEPT !.thr[t] = SkpThreadIdle]
    /\ UNCHANGED SkpOthers

NextSkp ==
    \/ \E t \in SkpThreads, n \in SkpNames : SkipAddLock(t, n)
    \/ \E t \in SkpThreads, n \in SkpNames : SkipRemoveLock(t, n)
    \/ \E t \in SkpThreads : SkipMutate(t)
    \/ \E t \in SkpThreads : SkipInsert(t)
    \/ \E t \in SkpThreads : SkipRemove(t)
    \/ \E t \in SkpThreads, n \in SkpNames : SkipLookupLock(t, n)
    \/ \E t \in SkpThreads : SkipContains(t)
    \/ \E t \in SkpThreads : SkipReturn(t)

SpecSkp == Init /\ [][NextSkp]_vars

(***************************************************************************)
(* Reading a call back: the statement the caller sent and the statement    *)
(* that is executed after before_query, both parsed again                  *)
(***************************************************************************)
CallDone == call.pc = "done"
Self == hooks["p1"]
\* the text executed after the call: the rewritten one, or the original
ExecutedSql == IF call.res.some THEN call.res.sql ELSE call.sql
Parses(txt) == LET Parsed(r) == r.ok /\ r.ns # <<>> IN Parsed(parse_sql(txt))
FirstQuery(txt) == parse_sql(txt).ns[1].query
InQuery == FirstQuery(call.sql)
OutQuery == FirstQuery(ExecutedSql)

\* every SELECT of a query, outermost first: the body, then the derived
\* subqueries of its FROM list in order
RECURSIVE SelectsOfQuery(_), SelectsOfSetExpr(_), SelectsOfFrom(_)
SelectsOfQuery(q) == SelectsOfSetExpr(q.body)
SelectsOfFrom(from) ==
    IF from = <<>> THEN <<>>
    ELSE (IF Head(from).relation.kind = "Derived"
          THEN SelectsOfQuery(Head(from).relation.subquery) ELSE <<>>)
         \o SelectsOfFrom(Tail(from))
SelectsOfSetExpr(b) ==
    CASE b.kind = "Select" -> <<b>> \o SelectsOfFrom(b.from)
      [] b.kind = "Query" -> SelectsOfQuery(b.query)
      [] b.kind = "SetOperation" -> SelectsOfSetExpr(b.left) \o SelectsOfSetExpr(b.right)

\* the predicates of a condition, left to right: its leaves under AND, OR
\* and parentheses
RECURSIVE Leaves(_)
Leaves(e) ==
    IF e.kind = "BinaryOp" /\ e.op \in {"AND", "OR"} THEN Leaves(e.left) \o Leaves(e.right)
    ELSE IF e.kind = "Nested" THEN Leaves(e.e)
    ELSE <<e>>
WhereLeaves(sel) == IF sel.selection = <<>> THEN <<>> ELSE Leaves(sel.selection[1])

\* the predicates a SELECT of the executed text holds beyond those of the
\* same SELECT of the original text
InjectedLeaves(selIn, selOut) ==
    SubSeq(WhereLeaves(selOut), Len(WhereLeaves(selIn)) + 1, Len(WhereLeaves(selOut)))

\* the COUNT(*) idiom, read off the tree: one item, a call of COUNT on *
CountIdiom(sel) ==
    /\ Len(sel.projection) = 1
    /\ sel.projection[1].kind \in {"UnnamedExpr", "ExprWithAlias"}
    /\ sel.projection[1].expr.kind = "Function"
    /\ sel.projection[1].expr.star
    /\ Len(sel.projection[1].expr.name) = 1
    /\ sel.projection[1].expr.name[1].q = ""
    /\ to_uppercase(sel.projection[1].expr.name[1].v) = kwCOUNT

\* a plain statement: one non-COUNT SELECT whose first FROM entry is a table
PlainSelect(q) ==
    /\ q.body.kind = "Select"
    /\ ~CountIdiom(q.body)
    /\ q.body.from # <<>>
    /\ q.body.from[1].relation.kind = "Table"

\* the name of a table reference as the database reads it: the last
\* segment, without its quotes, in lower case
TableOf(sel) ==
    to_lowercase(sel.from[1].relation.name[Len(sel.from[1].relation.name)].v)
Skipped(sel) == TableOf(sel) \in Self.skip_tables

\* the group that the current policy and context inject
TenantOfContext == CallGetter(CONTEXT_GETTER).tenant_id
TenantPresent == TenantOfContext # <<>> /\ TenantOfContext[1] # <<>>
GroupWanted == Self.enable_soft_delete \/ (Self.enable_tenant_filter /\ TenantPresent)

(***************************************************************************)
(* Claims                                                                  *)
(***************************************************************************)
\* C1: when a plain SELECT has a WHERE condition E and a non-empty group G
\* is injected, the emitted text read back has a WHERE whose top-level
\* operator is AND, whose left operand is E unchanged and whose right
\* operand is G (and nothing of E has moved under the AND).
C1_EmittedWhereIsEAndG ==
    (/\ CallDone /\ Parses(call.sql) /\ PlainSelect(InQuery)
     /\ InQuery.body.selection # <<>> /\ ~Skipped(InQuery.body) /\ GroupWanted)
    => /\ call.res.some
       /\ Parses(call.res.sql)
       /\ LET w == OutQuery.body.selection IN
          /\ w # <<>>
          /\ w[1].kind = "BinaryOp"
          /\ w[1].op = "AND"
          /\ w[1].left = InQuery.body.selection[1]
          /\ Leaves(w[1].right) = InjectedLeaves(InQuery.body, OutQuery.body)

\* the SELECT that names the driving table: the body when its first FROM
\* entry is a table, found through first derived subqueries otherwise
RECURSIVE DrivingSelect(_)
DrivingSelect(q) ==
    IF q.body.kind = "Select"
    THEN IF q.body.from = <<>> THEN <<>>
         ELSE IF q.body.from[1].relation.kind = "Table" THEN <<q.body>>
         ELSE IF q.body.from[1].relation.kind = "Derived"
         THEN DrivingSelect(q.body.from[1].relation.subquery)
         ELSE <<>>
    ELSE IF q.body.kind = "Query" THEN DrivingSelect(q.body.query)
    ELSE <<>>
\* the statement is one the policy injects into
Injects(q) == DrivingSelect(q) # <<>> /\ ~Skipped(DrivingSelect(q)[1]) /\ GroupWanted

IsDeleteFlagLeaf(e) ==
    /\ e.kind = "BinaryOp" /\ e.op = "="
    /\ e.right = Number(<<"0">>)
    /\ \/ e.left.kind = "Identifier" /\ e.left.id.v = delete_flag
       \/ e.left.kind = "CompoundIdentifier" /\ e.left.ids[Len(e.left.ids)].v = delete_flag

\* the WHERE text of sOut is the WHERE text of sIn, the word AND and then new
\* predicates, the first of them on delete_flag (or only the new
\* predicates when sIn has no WHERE); nothing else of the SELECT differs
InjectedInto(sIn, sOut) ==
    /\ sOut.kind = "Select"
    /\ sOut.projection = sIn.projection
    /\ sOut.from = sIn.from
    /\ sOut.selection # <<>>
    /\ sIn.selection # <<>> =>
          starts_with(FmtExpr(sOut.selection[1]),
                      FmtExpr(sIn.selection[1]) \o SP \o kwAND \o SP)
    /\ InjectedLeaves(sIn, sOut) # <<>>
    /\ IsDeleteFlagLeaf(InjectedLeaves(sIn, sOut)[1])

\* below a COUNT(*) SELECT the predicate goes into the derived subqueries
\* and the COUNT(*) SELECT keeps its own WHERE clause
RECURSIVE CountPlacement(_, _)
CountPlacement(qIn, qOut) ==
    IF qIn.body.kind = "Select" /\ CountIdiom(qIn.body)
    THEN /\ qOut.body.kind = "Select"
         /\ qOut.body.projection = qIn.body.projection
         /\ qOut.body.selection = qIn.body.selection
         /\ Len(qOut.body.from) = Len(qIn.body.from)
         /\ \A i \in DOMAIN qIn.body.from :
               LET ri == qIn.body.from[i].relation
                   ro == qOut.body.from[i].relation
               IN IF ri.kind = "Derived"
                  THEN /\ ro.kind = "Derived" /\ ro.alias = ri.alias
                       /\ CountPlacement(ri.subquery, ro.subquery)
                  ELSE ro = ri
    ELSE IF qIn.body.kind = "Select" THEN InjectedInto(qIn.body, qOut.body)
    ELSE IF qIn.body.kind = "Query"
    THEN qOut.body.kind = "Query" /\ CountPlacement(qIn.body.query, qOut.body.query)
    ELSE qOut = qIn

CountOverDerived(q) ==
    /\ q.body.kind = "Select"
    /\ CountIdiom(q.body)
    /\ \E i \in DOMAIN q.body.from : q.body.from[i].relation.kind = "Derived"

C2_Case ==
    /\ CallDone /\ Parses(call.sql) /\ CountOverDerived(InQuery)
    /\ Self.enable_soft_delete /\ Injects(InQuery)

C3_SkipListedTableUnchanged ==
    (/\ CallDone /\ Parses(call.sql) /\ InQuery.body.kind = "Select"
     /\ InQuery.body.from # <<>> /\ InQuery.body.from[1].relation.kind = "Table"
     /\ Skipped(InQuery.body))
    => call.res.ok /\ ~call.res.some

\* the first word of a text, in upper case
LeadingKeyword(txt) ==
    LET tr == trim(txt) IN to_uppercase(SubSeq(tr, 1, WordEnd(tr, 1) - 1))

\* C4: a text whose leading keyword is not SELECT is returned unchanged
\* (Ok(None)) and the parser is not run on it.
C4_NonSelectNeverParsed ==
    (CallDone /\ LeadingKeyword(call.sql) # kwSELECT)
    => call.res.ok /\ ~call.res.some /\ call.res.parse_calls = 0

C5_Case ==
    /\ CallDone
    /\ starts_with(to_uppercase(trim(call.sql)), kwSELECT)
    /\ ~parse_sql(call.sql).ok

\* C5: a text that begins with SELECT and cannot be parsed is returned
\* unchanged: Ok(None), neither an error nor another text.
C5_UnparseableSelectUnchanged ==
    C5_Case => call.res.ok /\ ~call.res.some /\ ExecutedSql = call.sql

\* an unparseable text that differs from its trimmed form
C5_Witness == C5_Case /\ trim(call.sql) # call.sql

InjectedColumns == {delete_flag, tenant_id}
\* the predicate compares <alias>.<column> for an injected column
QualifiedBy(e, alias) ==
    /\ e.kind = "BinaryOp" /\ e.op = "="
    /\ e.left.kind = "CompoundIdentifier"
    /\ Len(e.left.ids) = 2
    /\ FmtIdent(e.left.ids[1]) = FmtIdent(alias)
    /\ e.left.ids[2].q = "" /\ e.left.ids[2].v \in InjectedColumns
\* the predicate compares a bare injected column
Unqualified(e) ==
    /\ e.kind = "BinaryOp" /\ e.op = "="
    /\ e.left.kind = "Identifier"
    /\ e.left.id.q = "" /\ e.left.id.v \in InjectedColumns

OverTable(sel) == sel.from # <<>> /\ sel.from[1].relation.kind = "Table"

\* C6: in every SELECT whose first FROM entry is a plain table, each
\* injected predicate column is written <alias>.<column> when the table
\* carries an alias and as the bare column when it carries none.
C6_InjectedColumnsFollowAlias ==
    (CallDone /\ Parses(call.sql))
    => /\ Parses(ExecutedSql)
       /\ LET selsIn == SelectsOfQuery(InQuery)
              selsOut == SelectsOfQuery(OutQuery)
          IN
          /\ Len(selsOut) = Len(selsIn)
          /\ \A i \in DOMAIN selsIn :
             LET sIn == selsIn[i]
                 sOut == selsOut[i]
                 inj == InjectedLeaves(sIn, sOut)
             IN OverTable(sIn) =>
                   \A k \in DOMAIN inj :
                      IF sIn.from[1].relation.alias # <<>>
                      THEN QualifiedBy(inj[k], sIn.from[1].relation.alias[1])
                      ELSE Unqualified(inj[k])

\* a SELECT over an aliased table received two qualified predicates
C6_Witness ==
    /\ CallDone /\ Parses(call.sql) /\ PlainSelect(InQuery)
    /\ InQuery.body.from[1].relation.alias # <<>>
    /\ Len(InjectedLeaves(InQuery.body, OutQuery.body)) = 2
    /\ QualifiedBy(InjectedLeaves(InQuery.body, OutQuery.body)[2],
                   InQuery.body.from[1].relation.alias[1])

IsTenantLeaf(e) ==
    /\ e.kind = "BinaryOp" /\ e.op = "="
    /\ \/ e.left.kind = "Identifier" /\ e.left.id.v = tenant_id
       \/ e.left.kind = "CompoundIdentifier" /\ e.left.ids[Len(e.left.ids)].v = tenant_id

C7_Case == CallDone /\ Parses(call.sql) /\ PlainSelect(InQuery) /\ ~Skipped(InQuery.body)

\* C7: a plain SELECT over a table that is not skipped receives the
\* predicate tenant_id = '<id>' exactly when tenant filtering is enabled and
\* the context carries a present, non-empty tenant id; the literal read
\* back is that id and the column follows the alias rule; it receives the
\* predicate on delete_flag exactly when soft delete is enabled, whatever
\* the tenant id.
C7_TenantPredicateIffTenantPresent ==
    C7_Case
    => /\ Parses(ExecutedSql)
       /\ OutQuery.body.kind = "Select"
       /\ LET inj == InjectedLeaves(InQuery.body, OutQuery.body)
              tenantLeaves == SelectSeq(inj, IsTenantLeaf)
              softLeaves == SelectSeq(inj, IsDeleteFlagLeaf)
              alias == InQuery.body.from[1].relation.alias
          IN /\ Len(tenantLeaves)
                   = (IF Self.enable_tenant_filter /\ TenantPresent THEN 1 ELSE 0)
             /\ Len(softLeaves) = (IF Self.enable_soft_delete THEN 1 ELSE 0)
             /\ Len(inj) = Len(tenantLeaves) + Len(softLeaves)
             /\ \A k \in DOMAIN tenantLeaves :
                   /\ tenantLeaves[k].right = SingleQuotedString(TenantOfContext[1])
                   /\ IF alias # <<>> THEN QualifiedBy(tenantLeaves[k], alias[1])
                      ELSE Unqualified(tenantLeaves[k])

\* tenant filtering saw a tenant id with a quote in it and injected it
C7_Witness ==
    /\ C7_Case /\ Self.enable_tenant_filter /\ TenantOfContext = <<o_k>>
    /\ call.res.some
    /\ SelectSeq(InjectedLeaves(InQuery.body, OutQuery.body), IsTenantLeaf) # <<>>

(***************************************************************************)
(* Claims about HookedConnection and the registry, under SpecConn          *)
(***************************************************************************)
\* the statement the connection is to send: the rewritten one, or the original
SentSql == IF op.res.some THEN op.res.sql ELSE op.sql

\* C8: when before_query returns without error, the inner connection is
\* invoked exactly once with the rewritten statement (else the original);
\* after_query is invoked exactly once, only after the inner call has
\* completed, with the statement that was sent and with ok exactly when
\* the inner call succeeded; the caller receives the inner result.
C8_InnerOnceThenAfterOnce ==
    /\ op.pc = "inner"
          => /\ op.res.ok
             /\ inner_log = <<[method |-> op.method, sql |-> SentSql]>>
             /\ after_log = <<>>
    /\ (op.pc = "returned" /\ op.res.ok)
          => /\ inner_log = <<[method |-> op.method, sql |-> SentSql]>>
             /\ after_log = <<[hook |-> conn[1].hook, sql |-> inner_log[1].sql,
                               ok |-> op.inner = "ok"]>>
             /\ op.ret = op.inner
             /\ op.inner \in {"ok", "err"}

\* a rewritten statement failed in the inner connection and the caller
\* received that error
C8_Witness ==
    /\ op.pc = "returned" /\ op.res.ok /\ op.res.some
    /\ op.inner = "err" /\ op.ret = "err"
    /\ Len(after_log) = 1 /\ ~after_log[1].ok /\ after_log[1].sql # op.sql

\* C9: whatever before_query reports, a call that has returned has run the
\* statement on the inner connection exactly once (the original statement
\* when before_query reported an error) and the caller has the inner
\* connection's result.
C9_HookFailureInvisible ==
    op.pc = "returned"
    => /\ Len(inner_log) = 1
       /\ ~op.res.ok => inner_log[1].sql = op.sql
       /\ op.ret \in {"ok", "err"}
       /\ op.ret = op.inner

\* what the policy registered when the call was made does to the statement
RegisteredSql ==
    IF op.registered = <<>> THEN op.sql
    ELSE LET Outcome(r) == IF r.ok /\ r.some THEN r.sql ELSE op.sql
         IN Outcome(HookBeforeQuery(op.registered[1], CONTEXT_GETTER, op.sql))

\* C10: the statement sent to the inner connection is the one produced by
\* the policy that was in the registry when the call was made, and the
\* original statement when the registry was empty.
C10_UsesRegisteredPolicyAtCall ==
    (op.pc \in {"inner", "returned"} /\ op.res.ok)
    => /\ Len(inner_log) = 1
       /\ inner_log[1].sql = RegisteredSql

(***************************************************************************)
(* Claims about concurrent callers                                         *)
(***************************************************************************)
\* the tenant predicates of every SELECT of a rewritten text
RECURSIVE WhereLeavesOfAll(_)
WhereLeavesOfAll(sels) ==
    IF sels = <<>> THEN <<>> ELSE WhereLeaves(Head(sels)) \o WhereLeavesOfAll(Tail(sels))
TenantLeavesOf(txt) == SelectSeq(WhereLeavesOfAll(SelectsOfQuery(FirstQuery(txt))), IsTenantLeaf)

\* C11: a request that registered its own context getter and then had its
\* SELECT rewritten finds, in the rewritten text, a tenant predicate, and
\* every tenant predicate carries the request's own tenant id.
C11_TenantIsOwnRequests ==
    \A r \in Requests :
       reqs[r].pc = "done"
       => /\ reqs[r].res.some
          /\ TenantLeavesOf(reqs[r].res.sql) # <<>>
          /\ \A k \in DOMAIN TenantLeavesOf(reqs[r].res.sql) :
                TenantLeavesOf(reqs[r].res.sql)[k].right
                   = SingleQuotedString(RequestTenant(r))

\* the values a registry read may yield: None, or one registered hook whole
WholeValues == {FatNone} \cup {Fat(h) : h \in RegHooks}

\* C12: every get_extract_hook() yields None or one whole registered hook,
\* and it is the value of the last write that had completed when the read
\* took the lock; whenever no write is in progress the cell holds the value
\* of the last completed write (None before any register).
C12_RegistryReadsAreAtomic ==
    /\ \A t \in RegThreads :
          reg.thr[t].pc = "got"
          => reg.thr[t].got \in WholeValues /\ reg.thr[t].got = reg.thr[t].at_lock
    /\ reg.lock.writer = "" => reg.slot = reg.last
    /\ reg.lock.writer # "" => reg.lock.readers = {}

\* a read returned the old hook while a later register has already completed
C12_Witness ==
    \E t \in RegThreads :
       /\ reg.thr[t].pc = "got"
       /\ reg.thr[t].got = Fat("p1")
       /\ reg.last = Fat("veto")
       /\ reg.lock.writer = ""

\* C13: the skip-list holds only lowercase names; a lookup never reads the
\* set in the middle of an update; its answer is true exactly when a name
\* equal to the looked-up one up to letter case had been added, and not
\* removed since, by the writes completed when the lookup took the lock.
C13_SkipListLookupsAreAtomic ==
    /\ \A n \in skp.hook.skip_tables : n = to_lowercase(n)
    /\ \A t \in SkpThreads :
          skp.thr[t].pc = "looked"
          => /\ ~skp.thr[t].saw_mid
             /\ skp.thr[t].found
                   = (\E m \in skp.thr[t].at_lock : eq_ignore_ascii_case(m, skp.thr[t].name))
    /\ skp.lock.writer = "" => ~skp.mid
    /\ skp.lock.writer # "" => skp.lock.readers = {}

\* a lookup of t answered true after T had been added, while a later
\* remove has already completed
C13_Witness ==
    \E t \in SkpThreads :
       /\ skp.thr[t].pc = "looked"
       /\ skp.thr[t].name = t_
       /\ skp.thr[t].found
       /\ skp.thr[t].at_lock = {<<"T">>}
       /\ skp.names = {}
       /\ skp.lock.writer = ""

(***************************************************************************)
(* Claims about the rewrite as a function of the text                      *)
(***************************************************************************)
\* the text executed when txt goes through before_query of the hook
Rewritten(txt) ==
    LET Out(r) == IF r.some THEN r.sql ELSE txt
    IN Out(before_query(Self, CONTEXT_GETTER, txt))
\* the rewrite applied to the text the call has produced
Twice == Rewritten(ExecutedSql)

\* a query with the WHERE clause of every SELECT taken away
RECURSIVE EraseQuery(_), EraseSetExpr(_), EraseFrom(_)
EraseQuery(q) == [q EXCEPT !.body = EraseSetExpr(q.body)]
EraseFrom(from) ==
    [i \in DOMAIN from |->
        IF from[i].relation.kind = "Derived"
        THEN [from[i] EXCEPT !.relation.subquery = EraseQuery(@)]
        ELSE from[i]]
EraseSetExpr(b) ==
    CASE b.kind = "Select" -> [b EXCEPT !.selection = <<>>, !.from = EraseFrom(b.from)]
      [] b.kind = "Query" -> [b EXCEPT !.query = EraseQuery(b.query)]
      [] b.kind = "SetOperation" ->
            [b EXCEPT !.left = EraseSetExpr(b.left), !.right = EraseSetExpr(b.right)]

\* SQL's three-valued logic over the predicates of a condition
And3(x, y) == IF x = "F" \/ y = "F" THEN "F" ELSE IF x = "T" /\ y = "T" THEN "T" ELSE "U"
Or3(x, y) == IF x = "T" \/ y = "T" THEN "T" ELSE IF x = "F" /\ y = "F" THEN "F" ELSE "U"
RECURSIVE Eval3(_, _)
Eval3(e, v) ==
    IF e.kind = "BinaryOp" /\ e.op = "AND" THEN And3(Eval3(e.left, v), Eval3(e.right, v))
    ELSE IF e.kind = "BinaryOp" /\ e.op = "OR" THEN Or3(Eval3(e.left, v), Eval3(e.right, v))
    ELSE IF e.kind = "Nested" THEN Eval3(e.e, v)
    ELSE v[e]
\* the two WHERE clauses admit the same rows whatever their predicates yield
EquivalentWhere(w1, w2) ==
    IF w1 = <<>> \/ w2 = <<>> THEN w1 = w2
    ELSE LET atoms == Range(Leaves(w1[1])) \cup Range(Leaves(w2[1]))
         IN \A v \in [atoms -> {"T", "F", "U"}] : Eval3(w1[1], v) = Eval3(w2[1], v)
EquivalentQueries(q1, q2) ==
    /\ EraseQuery(q1) = EraseQuery(q2)
    /\ LET sels1 == SelectsOfQuery(q1)
           sels2 == SelectsOfQuery(q2)
       IN \A i \in DOMAIN sels1 : EquivalentWhere(sels1[i].selection, sels2[i].selection)

\* C14: rewriting the text that a call produced once more, with the same
\* hook and context, gives a statement equal to it up to the WHERE clauses,
\* and each WHERE clause is logically equivalent (in three-valued logic
\* over its predicates) to the one it had after the first rewrite.
C14_RewriteTwiceEquivalentToOnce ==
    CallDone
    => LET twice == Twice
       IN IF Parses(ExecutedSql)
          THEN Parses(twice) /\ EquivalentQueries(OutQuery, FirstQuery(twice))
          ELSE twice = ExecutedSql

\* a WHERE clause with OR at its top received the group, and received it
\* again when rewritten again
C14_Witness ==
    /\ CallDone /\ Parses(call.sql) /\ PlainSelect(InQuery)
    /\ InQuery.body.selection # <<>>
    /\ InQuery.body.selection[1].kind = "BinaryOp"
    /\ InQuery.body.selection[1].op = "OR"
    /\ call.res.some
    /\ Len(InjectedLeaves(InQuery.body, OutQuery.body)) = 2
    /\ Len(WhereLeaves(FirstQuery(Twice).body)) = Len(WhereLeaves(OutQuery.body)) + 2

\* the predicate is one of those the hook injects
IsInjectedLeaf(e) == IsDeleteFlagLeaf(e) \/ IsTenantLeaf(e)
\* xs begins with ys
IsPrefix(ys, xs) == Len(ys) <= Len(xs) /\ SubSeq(xs, 1, Len(ys)) = ys

OneSelectStatement ==
    /\ Parses(call.sql)
    /\ Len(parse_sql(call.sql).ns) = 1
    /\ LeadingKeyword(call.sql) = kwSELECT

\* C16: a parseable SELECT in which no driving table is resolved (no FROM
\* clause, a set operation as the body) is returned unchanged, Ok(None),
\* however it is spelled.
C16_NoTableReturnsUnchanged ==
    (CallDone /\ OneSelectStatement /\ DrivingSelect(InQuery) = <<>>)
    => call.res.ok /\ ~call.res.some

\* a query with the literal of every tenant predicate blanked
RECURSIVE MaskExpr(_), MaskQuery(_), MaskSetExpr(_), MaskFrom(_)
MaskExpr(e) ==
    IF IsTenantLeaf(e) THEN [e EXCEPT !.right = SingleQuotedString(<<>>)]
    ELSE IF e.kind = "BinaryOp" /\ e.op \in {"AND", "OR"}
    THEN [e EXCEPT !.left = MaskExpr(e.left), !.right = MaskExpr(e.right)]
    ELSE IF e.kind = "Nested" THEN [e EXCEPT !.e = MaskExpr(e.e)]
    ELSE e
MaskQuery(q) == [q EXCEPT !.body = MaskSetExpr(q.body)]
MaskFrom(from) ==
    [i \in DOMAIN from |->
        IF from[i].relation.kind = "Derived"
        THEN [from[i] EXCEPT !.relation.subquery = MaskQuery(@)]
        ELSE from[i]]
MaskSetExpr(b) ==
    CASE b.kind = "Select" ->
            [b EXCEPT !.selection = [i \in DOMAIN b.selection |-> MaskExpr(b.selection[i])],
                      !.from = MaskFrom(b.from)]
      [] b.kind = "Query" -> [b EXCEPT !.query = MaskQuery(b.query)]
      [] b.kind = "SetOperation" ->
            [b EXCEPT !.left = MaskSetExpr(b.left), !.right = MaskSetExpr(b.right)]

\* the getters whose context carries a present, non-empty tenant id
TenantGetters ==
    {g \in Getters : CallGetter(g).tenant_id # <<>> /\ CallGetter(g).tenant_id[1] # <<>>}
\* the text executed when call.sql is rewritten under the context of g
RewrittenUnder(g) ==
    LET Out(r) == IF r.some THEN r.sql ELSE call.sql
    IN Out(before_query(Self, g, call.sql))

C17_Case ==
    /\ CallDone /\ Parses(call.sql) /\ Self.enable_tenant_filter
    /\ CONTEXT_GETTER \in TenantGetters

C18_SoftDeleteAlwaysInjected ==
    (/\ CallDone /\ OneSelectStatement /\ Self.enable_soft_delete
     /\ DrivingSelect(InQuery) # <<>> /\ ~Skipped(DrivingSelect(InQuery)[1]))
    => /\ call.res.some
       /\ Parses(call.res.sql)
       /\ DrivingSelect(OutQuery) # <<>>
       /\ \E k \in DOMAIN InjectedLeaves(DrivingSelect(InQuery)[1], DrivingSelect(OutQuery)[1]) :
             IsDeleteFlagLeaf(InjectedLeaves(DrivingSelect(InQuery)[1],
                                             DrivingSelect(OutQuery)[1])[k])

\* C19: when the text holds several statements and the first is a SELECT,
\* a rewritten text holds as many statements as the text given, and the
\* statements after the first are the ones given, in order.
C19_LaterStatementsKept ==
    (/\ CallDone /\ Parses(call.sql) /\ Len(parse_sql(call.sql).ns) > 1
     /\ LeadingKeyword(call.sql) = kwSELECT /\ call.res.some)
    => /\ Parses(call.res.sql)
       /\ Len(parse_sql(call.res.sql).ns) = Len(parse_sql(call.sql).ns)
       /\ Tail(parse_sql(call.res.sql).ns) = Tail(parse_sql(call.sql).ns)

\* the table of the SELECT is written with backticks
Backticked(sel) == sel.from[1].relation.name[Len(sel.from[1].relation.name)].q = BQ

\* C20: a SELECT whose own first FROM entry is a table of the skip-list
\* (written bare or with double quotes) receives no predicate, at whatever
\* depth of the statement it stands.
C20_SkipListedSubqueryUntouched ==
    (CallDone /\ OneSelectStatement /\ Parses(ExecutedSql))
    => \A i \in DOMAIN SelectsOfQuery(InQuery) :
          (/\ OverTable(SelectsOfQuery(InQuery)[i])
           /\ ~Backticked(SelectsOfQuery(InQuery)[i])
           /\ Skipped(SelectsOfQuery(InQuery)[i]))
          => /\ i \in DOMAIN SelectsOfQuery(OutQuery)
             /\ SelectsOfQuery(OutQuery)[i].selection = SelectsOfQuery(InQuery)[i].selection

\* no item of the select list is a function call
NonAggregate(sel) ==
    \A i \in DOMAIN sel.projection :
       sel.projection[i].kind \in {"UnnamedExpr", "ExprWithAlias"}
          => sel.projection[i].expr.kind # "Function"

\* a non-aggregate SELECT over a derived subquery, whose driving table is
\* resolved through the subquery and receives a group
C21_Case ==
    /\ CallDone /\ OneSelectStatement
    /\ InQuery.body.kind = "Select"
    /\ NonAggregate(InQuery.body)
    /\ InQuery.body.from # <<>>
    /\ InQuery.body.from[1].relation.kind = "Derived"
    /\ Injects(InQuery)

\* C21: for a non-aggregate SELECT whose first FROM entry is a derived
\* subquery, the injected predicates stand in the WHERE clause of the
\* SELECT whose FROM names the driving table, written with that SELECT's
\* alias rule, and the outer SELECT over the derived table keeps its WHERE
\* clause.
C21_DerivedPredicateOnInnerSelect ==
    C21_Case
    => /\ call.res.some
       /\ Parses(call.res.sql)
       /\ LET qIn == InQuery
              qOut == OutQuery
              dIn == DrivingSelect(qIn)
              dOut == DrivingSelect(qOut)
          IN
          /\ qOut.body.kind = "Select"
          /\ qOut.body.selection = qIn.body.selection
          /\ dOut # <<>>
          /\ InjectedLeaves(dIn[1], dOut[1]) # <<>>
          /\ \A k \in DOMAIN InjectedLeaves(dIn[1], dOut[1]) :
                IF dIn[1].from[1].relation.alias # <<>>
                THEN QualifiedBy(InjectedLeaves(dIn[1], dOut[1])[k],
                                 dIn[1].from[1].relation.alias[1])
                ELSE Unqualified(InjectedLeaves(dIn[1], dOut[1])[k])

====
